---- MODULE Spec2Model ----
(***************************************************************************)
(* Model of the recommendation engine of the PC recommendation backend:    *)
(* app/api/services/recommendation_engine.py (RecommendationEngine) and    *)
(* the result cache of app/core/cache.py (Cache).                          *)
(*                                                                         *)
(* Numbers.  The program computes with Python floats.  The model uses      *)
(* fixed-point integers: sub-scores and the raw confidence are in          *)
(* thousandths of a point (ScoreScale), weights in ten-thousandths         *)
(* (WeightScale), the returned confidence score in tenths of a point       *)
(* (round(x, 1)).  Prices and budget bounds are whole dollars, times are   *)
(* seconds.                                                                *)
(***************************************************************************)
EXTENDS Integers, Sequences, FiniteSets, TLC

VARIABLES
    catalog,     \* pc_configurations collection: sequence of documents, natural order
    memory_cache,\* Cache.memory_cache: set of entries [key, value, expires_at]
    now,         \* datetime.utcnow(), seconds
    pc,          \* position of the generate_recommendations coroutine
    req,         \* arguments of the call in progress: [profile, limit, safe], when
                 \* it started and whether the server failed its cache.get
    configs,     \* local `configs` of generate_recommendations
    attempts,    \* catalog queries issued by the call so far: <<[stage, found]>>
    result,      \* the list returned (top_recommendations or cached_result)
    cacheHit,    \* second component of the returned tuple
    outcome,     \* "none" | "ok" | "no_candidates" | "catalog_error"
    served,      \* per requirements, the last list computed and the call it was
                 \* computed for: {[profile, limit, safe, result, expires]}, with
                 \* the user_feedback of the recommendation document stored for it
    ncalls,      \* calls started so far
    requested,   \* the requirements of the calls so far
    probe,       \* a scoring function applied on its own: [fn, ...arguments, value]
    redis,       \* Cache.redis_client and the server behind it: [client, up, store]
    other,       \* a second generate_recommendations coroutine, suspended at an
                 \* await: its [pc, req, configs, attempts, result, cacheHit, outcome]
    issued       \* the set, delete and clear_pattern calls that a direct user of
                 \* the Cache object has completed, oldest first

vars == <<catalog, memory_cache, now, pc, req, configs, attempts, result,
          cacheHit, outcome, served, ncalls, requested, probe, redis, other, issued>>

----------------------------------------------------------------------------
(* Bounds of the model *)

MaxCatalog == 2      \* documents in the catalog
MaxCalls == 2        \* calls of generate_recommendations in one behaviour
MaxKeys == 1         \* distinct requirements asked for in one behaviour
MaxTime == 1800      \* last instant of the clock, seconds
TickSeconds == 900   \* seconds one clock step advances

ScoreScale == 10 * 100       \* sub-scores: thousandths of a point
WeightScale == 100 * 100     \* weights: ten-thousandths

----------------------------------------------------------------------------
(* Small helpers *)

Min(a, b) == IF a <= b THEN a ELSE b
Max(a, b) == IF a >= b THEN a ELSE b
Abs(a) == IF a >= 0 THEN a ELSE 0 - a
Range(s) == {s[i] : i \in 1..Len(s)}

Take(s, n) == SubSeq(s, 1, Min(n, Len(s)))

NoneVal == "None"            \* Python None, where a string is expected
NonNumeric == 0 - 1          \* a stored value that is not a number (None, a string)
IsNumber(v) == v # NonNumeric

Purposes == {"gaming", "office", "creative", "programming", "general"}
Levels == {"basic", "standard", "high", "professional"}
PerfKeys == {"overall", "cpu", "gpu", "ram", "storage"}

\* dict.get(key, default)
Get(d, k, default) == IF k \in DOMAIN d THEN d[k] ELSE default

----------------------------------------------------------------------------
(* Threshold tables of the candidate retriever *)

SafePurposeThresholds ==
    [gaming |-> 30, creative |-> 25, programming |-> 20, office |-> 15, general |-> 10]
SafePerformanceThresholds ==
    [basic |-> 15, standard |-> 20, high |-> 25, professional |-> 30]
PurposeThresholds ==
    [gaming |-> 60, creative |-> 55, programming |-> 50, office |-> 45, general |-> 40]
PerformanceThresholds ==
    [basic |-> 30, standard |-> 45, high |-> 60, professional |-> 75]

MinSuitability(purpose, safe) ==
    IF safe THEN Get(SafePurposeThresholds, purpose, 10)
            ELSE Get(PurposeThresholds, purpose, 40)
MinPerformance(level, safe) ==
    IF safe THEN Get(SafePerformanceThresholds, level, 15)
            ELSE Get(PerformanceThresholds, level, 40)

\* max(20, threshold - 20)
Broaden(threshold) == Max(20, threshold - 20)

----------------------------------------------------------------------------
(* Catalog queries.  A document d of pc_configurations is a record          *)
(*   [id, price, shape, suit, perf, comps, fallback_type]                   *)
(* shape = "ok": suitability_scores and performance_profile are dicts of    *)
(* numbers; "bad_suitability": suitability_scores exists but is no dict.    *)
(* comps lists the brands of the component documents the ids resolve to.    *)

PriceInRange(d, lo, hi) == lo <= d.price /\ d.price <= hi

\* {purpose_field: {$gte: s}, performance_profile.overall_performance: {$gte: q}}
MeetsThresholds(d, purpose, s, q) ==
    /\ d.shape = "ok"
    /\ purpose \in DOMAIN d.suit
    /\ IsNumber(d.suit[purpose]) /\ d.suit[purpose] >= s
    /\ IsNumber(d.perf["overall"]) /\ d.perf["overall"] >= q

\* relevance_score = 0.6 * suitability + 0.4 * overall, in tenths; null sorts last
Relevance(d, purpose) ==
    IF d.shape = "ok" /\ purpose \in DOMAIN d.suit
          /\ IsNumber(d.suit[purpose]) /\ IsNumber(d.perf["overall"])
    THEN 6 * d.suit[purpose] + 4 * d.perf["overall"]
    ELSE 0 - 1

\* {$sort: {relevance_score: -1, total_price: 1}}: a before b
SortsBefore(a, b, purpose) ==
    \/ Relevance(a, purpose) > Relevance(b, purpose)
    \/ Relevance(a, purpose) = Relevance(b, purpose) /\ a.price < b.price

RECURSIVE InsertByRelevance(_, _, _)
InsertByRelevance(s, d, purpose) ==
    IF s = <<>> THEN <<d>>
    ELSE IF SortsBefore(d, Head(s), purpose) THEN <<d>> \o s
    ELSE <<Head(s)>> \o InsertByRelevance(Tail(s), d, purpose)

RECURSIVE SortByRelevance(_, _)
SortByRelevance(s, purpose) ==
    IF s = <<>> THEN <<>>
    ELSE InsertByRelevance(SortByRelevance(SubSeq(s, 1, Len(s) - 1), purpose),
                           s[Len(s)], purpose)

\* aggregate([{$match}, {$addFields}, {$sort}, {$limit: n}]) with both thresholds
QueryThresholds(cat, lo, hi, purpose, s, q, n) ==
    Take(SortByRelevance(
           SelectSeq(cat, LAMBDA d : PriceInRange(d, lo, hi)
                                      /\ MeetsThresholds(d, purpose, s, q)),
           purpose), n)

\* the same pipeline with only the $exists and price conditions (no_constraints)
QueryPriceExists(cat, lo, hi, purpose, n) ==
    Take(SortByRelevance(SelectSeq(cat, LAMBDA d : PriceInRange(d, lo, hi)), purpose), n)

\* find({total_price: {$gte, $lte}}).to_list(length = n): natural order
QuerySimple(cat, lo, hi, n) ==
    Take(SelectSeq(cat, LAMBDA d : PriceInRange(d, lo, hi)), n)

\* configs + fallback_configs without duplicate _id, first occurrence kept
RECURSIVE Dedup(_, _)
Dedup(s, seen) ==
    IF s = <<>> THEN <<>>
    ELSE IF Head(s).id \in seen THEN Dedup(Tail(s), seen)
    ELSE <<Head(s)>> \o Dedup(Tail(s), seen \cup {Head(s).id})

\* expansion = int(budget_range * 0.15)
Expansion(p) == ((p.bmax - p.bmin) * 15) \div 100
ExpandedMin(p) == Max(0, p.bmin - Expansion(p))
ExpandedMax(p) == p.bmax + Expansion(p)

\* config['_fallback_type'] as _try_fallback_query assigns it; every caller leaves
\* the parameter preferred_brands at None
FallbackType(p, relaxed_performance, expanded_budget, no_constraints) ==
    IF p.brands # <<>> THEN "preferred_brands"
    ELSE IF relaxed_performance THEN "relaxed_performance"
    ELSE IF expanded_budget THEN "expanded_budget"
    ELSE IF no_constraints THEN "no_constraints"
    ELSE "original"

Tagged(s, t) == [i \in 1..Len(s) |-> [s[i] EXCEPT !.fallback_type = t]]

\* a plausible slip: the relaxed stage drops the performance threshold
TryFallbackQueryNoPerformance(cat, p, limit, relaxed_performance, expanded_budget, no_constraints) ==
    LET s0 == Get(PurposeThresholds, p.purpose, 40)
        q0 == Get(PerformanceThresholds, p.level, 40)
        s == IF relaxed_performance THEN Broaden(s0) ELSE s0
        q == IF relaxed_performance THEN 0 ELSE q0
        lo == IF expanded_budget THEN ExpandedMin(p) ELSE p.bmin
        hi == IF expanded_budget THEN ExpandedMax(p) ELSE p.bmax
        found == IF no_constraints
                 THEN QueryPriceExists(cat, lo, hi, p.purpose, limit + 10)
                 ELSE QueryThresholds(cat, lo, hi, p.purpose, s, q, limit + 10)
    IN Tagged(found, FallbackType(p, relaxed_performance, expanded_budget, no_constraints))

\* _try_fallback_query when the aggregation succeeds
TryFallbackQuery(cat, p, limit, relaxed_performance, expanded_budget, no_constraints) ==
    LET s0 == Get(PurposeThresholds, p.purpose, 40)
        q0 == Get(PerformanceThresholds, p.level, 40)
        s == IF relaxed_performance THEN Broaden(s0) ELSE s0
        q == IF relaxed_performance THEN Broaden(q0) ELSE q0
        lo == IF expanded_budget THEN ExpandedMin(p) ELSE p.bmin
        hi == IF expanded_budget THEN ExpandedMax(p) ELSE p.bmax
        found == IF no_constraints
                 THEN QueryPriceExists(cat, lo, hi, p.purpose, limit + 10)
                 ELSE QueryThresholds(cat, lo, hi, p.purpose, s, q, limit + 10)
    IN Tagged(found, FallbackType(p, relaxed_performance, expanded_budget, no_constraints))

----------------------------------------------------------------------------
(* Weight calculator *)

BaseWeights == [purpose |-> 4000, budget |-> 3000, performance |-> 2000, brand |-> 1000]

\* fixed weights of safe mode
SafeWeights == [purpose |-> 4000, budget |-> 3000, performance |-> 2000, brand |-> 1000]

PerformanceWeights == [basic |-> 1500, standard |-> 2000, high |-> 2500, professional |-> 3000]

PurposeWeights ==
    [gaming      |-> [purpose |-> 4500, performance |-> 3000, budget |-> 2000, brand |-> 500],
     creative    |-> [purpose |-> 4000, performance |-> 3000, budget |-> 2000, brand |-> 1000],
     programming |-> [purpose |-> 3500, performance |-> 3000, budget |-> 2500, brand |-> 1000],
     office      |-> [purpose |-> 3000, performance |-> 2000, budget |-> 4000, brand |-> 1000],
     general     |-> [purpose |-> 3500, performance |-> 2500, budget |-> 3000, brand |-> 1000]]

WeightSum(w) == w.purpose + w.budget + w.performance + w.brand

\* a plausible slip: the total leaves the brand weight out
NormalizeWithoutBrand(w) ==
    LET total == w.purpose + w.budget + w.performance
    IN [k \in DOMAIN w |-> (w[k] * WeightScale) \div total]

\* weights[key] / total_weight, or the base weights when the total is 0
Normalize(w) ==
    IF WeightSum(w) > 0
    THEN [k \in DOMAIN w |-> (w[k] * WeightScale) \div WeightSum(w)]
    ELSE BaseWeights

\* _calculate_dynamic_weights
CalculateDynamicWeights(p) ==
    LET budget_range == p.bmax - p.bmin
        w1 == IF budget_range < 500
              THEN [purpose |-> 3000, budget |-> 4000, performance |-> 2000, brand |-> 1000]
              ELSE IF budget_range > 2000
              THEN [purpose |-> 4000, budget |-> 2000, performance |-> 3000, brand |-> 1000]
              ELSE BaseWeights
        w2 == [w1 EXCEPT !.performance = Get(PerformanceWeights, p.level, 2000)]
        w3 == IF p.purpose \in DOMAIN PurposeWeights THEN PurposeWeights[p.purpose] ELSE w2
    IN Normalize(w3)

Weights(p, safe) == IF safe THEN SafeWeights ELSE CalculateDynamicWeights(p)

----------------------------------------------------------------------------
(* Sub-scores, in thousandths of a point.  A function that raises returns   *)
(* Raised; the safe variants catch and return their fallback score.         *)

Raised == 0 - 2

PurposeSpecificity ==
    [gaming |-> 1200, creative |-> 1150, programming |-> 1000, office |-> 900, general |-> 1000]

\* _calculate_purpose_score: min(100, base_score * weight)
CalculatePurposeScore(purpose, suit) ==
    LET base_score == Get(suit, purpose, 50)
    IN IF ~IsNumber(base_score) THEN Raised
       ELSE Min(100 * ScoreScale, base_score * Get(PurposeSpecificity, purpose, 1000))

\* a plausible slip: the floor of 60 is left out
PurposeScoreUnfloored(purpose, suit) ==
    LET base_score == Get(suit, purpose, 50)
    IN IF ~IsNumber(base_score) THEN 70 * ScoreScale
       ELSE Min(100 * ScoreScale, base_score * ScoreScale)

\* _calculate_purpose_score_safe: max(60, min(100, base_score)), 70 on error
CalculatePurposeScoreSafe(purpose, suit) ==
    LET base_score == Get(suit, purpose, 50)
    IN IF ~IsNumber(base_score) THEN 70 * ScoreScale
       ELSE Max(60 * ScoreScale, Min(100 * ScoreScale, base_score * ScoreScale))

\* 100 * (1 - distance_from_center / max_distance) * tightness_factor, where
\* tightness_factor = max(0.5, min(2.0, 1000 / budget_range))
CenteredFit(price, bmin, bmax) ==
    LET budget_range == bmax - bmin
        num == budget_range - Abs(2 * price - (bmin + bmax))
    IN IF budget_range <= 500 THEN (200 * ScoreScale * num) \div budget_range
       ELSE IF budget_range >= 2000 THEN (50 * ScoreScale * num) \div budget_range
       ELSE (((100 * ScoreScale * num) \div budget_range) * 1000) \div budget_range

\* _calculate_budget_fit
CalculateBudgetFit(price, bmin, bmax) ==
    IF price < 0 THEN 0
    ELSE IF bmin >= bmax \/ bmin < 0 \/ bmax < 0 THEN 0
    ELSE LET budget_range == bmax - bmin
             fit_score == Max(0, CenteredFit(price, bmin, bmax))
         IN IF 10 * Abs(price - bmin) < budget_range
            THEN Min(100 * ScoreScale, fit_score + 15 * ScoreScale)
            ELSE IF 10 * Abs(price - bmax) < budget_range
            THEN Min(100 * ScoreScale, fit_score + 10 * ScoreScale)
            ELSE fit_score

\* _calculate_budget_fit_safe (bounds that are no numbers take the error path: 75)
CalculateBudgetFitSafe(price, bmin, bmax) ==
    IF ~IsNumber(bmin) \/ ~IsNumber(bmax) THEN 75 * ScoreScale
    ELSE IF price < bmin THEN 70 * ScoreScale
    ELSE IF price > bmax THEN 60 * ScoreScale
    ELSE IF bmax - bmin = 0 THEN 85 * ScoreScale
    ELSE Max(70 * ScoreScale,
             (100 * ScoreScale * ((bmax - bmin) - Abs(2 * price - (bmin + bmax))))
                 \div (bmax - bmin))

LevelMapping == [basic |-> 30, standard |-> 50, high |-> 70, professional |-> 85]
SafeLevelMapping == [basic |-> 40, standard |-> 50, high |-> 60, professional |-> 70]

\* component weights by purpose, in hundredths
ComponentWeights ==
    [gaming      |-> [gpu |-> 50, cpu |-> 30, ram |-> 15, storage |-> 5],
     creative    |-> [gpu |-> 40, cpu |-> 35, ram |-> 20, storage |-> 5],
     programming |-> [cpu |-> 40, ram |-> 30, gpu |-> 20, storage |-> 10],
     office      |-> [cpu |-> 30, ram |-> 30, gpu |-> 20, storage |-> 20],
     general     |-> [cpu |-> 30, gpu |-> 30, ram |-> 20, storage |-> 20]]

\* weighted_performance in hundredths; a component that is no number is skipped
WeightedPerformance(perf, purpose) ==
    LET w == Get(ComponentWeights, purpose, ComponentWeights["general"])
        part(k) == IF IsNumber(Get(perf, k, 50)) THEN Get(perf, k, 50) * w[k] ELSE 0
    IN part("gpu") + part("cpu") + part("ram") + part("storage")

\* _calculate_performance_score
CalculatePerformanceScore(required_level, perf, purpose) ==
    LET required_score == Get(LevelMapping, required_level, 50)
        weighted == WeightedPerformance(perf, purpose)
    IN IF weighted >= 100 * required_score THEN 100 * ScoreScale
       ELSE IF weighted >= 80 * required_score THEN 75 * ScoreScale
       ELSE IF weighted >= 60 * required_score THEN 50 * ScoreScale
       ELSE 25 * ScoreScale

\* _calculate_performance_score_safe, 70 on error
CalculatePerformanceScoreSafe(required_level, perf) ==
    LET required_score == Get(SafeLevelMapping, required_level, 50)
        overall_performance == Get(perf, "overall", 50)
    IN IF ~IsNumber(overall_performance) THEN 70 * ScoreScale
       ELSE IF overall_performance >= required_score
       THEN Max(85 * ScoreScale, Min(100 * ScoreScale, overall_performance * ScoreScale))
       ELSE IF 10 * overall_performance >= 7 * required_score THEN 75 * ScoreScale
       ELSE IF 2 * overall_performance >= required_score THEN 70 * ScoreScale
       ELSE 65 * ScoreScale

\* str.upper() on the brand names of the model
Upper(b) == IF b = "nvidia" THEN "NVIDIA" ELSE b

\* _calculate_brand_preference_bonus: share of the resolved components whose
\* brand is preferred, 0-100
CalculateBrandPreferenceBonus(comps, preferred_brands) ==
    IF preferred_brands = <<>> \/ comps = <<>> THEN 0
    ELSE LET wanted == {Upper(b) : b \in Range(preferred_brands)}
             matching_brands == Cardinality({i \in 1..Len(comps) : Upper(comps[i]) \in wanted})
         IN (matching_brands * 100 * ScoreScale) \div Len(comps)

----------------------------------------------------------------------------
(* Trade-off analyzer, the budget part *)

\* threshold_factor = max(0.1, min(0.3, 500 / max(budget_range, 1))), in
\* thousandths, rounded down
ThresholdFactor(budget_range) ==
    Max(100, Min(300, (500 * 1000) \div Max(budget_range, 1)))

\* the first trade-off of _identify_trade_offs: "negative" when
\* price > budget_center * (1 + threshold_factor), computed without rounding,
\* else "neutral" when price < budget_min * 1.1, else "none"
BudgetTradeOff(price, bmin, bmax) ==
    LET r == Max(bmax - bmin, 1)
        over == IF 3 * r <= 5000 THEN 20 * price > 13 * (bmin + bmax)
                ELSE IF r >= 5000 THEN 20 * price > 11 * (bmin + bmax)
                ELSE 2 * price * r > (bmin + bmax) * (r + 500)
    IN IF over THEN "negative"
       ELSE IF 10 * price < 11 * bmin THEN "neutral"
       ELSE "none"

----------------------------------------------------------------------------
(* Scorer *)

\* _check_budget_constraints: budget.min <= price <= budget.max
CheckBudgetConstraints(price, p) == p.bmin <= price /\ price <= p.bmax

\* a plausible slip: the clamp is left out
NoClamp(x) == x

\* confidence_score = max(0, min(100, confidence_score))
Clamp(x) == Max(0, Min(100 * ScoreScale, x))

\* round(confidence_score, 1): thousandths to tenths
Round1(x) == (x + 50) \div 100

Weighted(score, weight) == (score * weight) \div WeightScale

\* the sub-scores of one candidate: locals purpose_score, budget_fit,
\* performance_score, brand_bonus of _score_configuration
SubScores(c, p, safe) ==
    [purpose_score |-> IF safe THEN CalculatePurposeScoreSafe(p.purpose, c.suit)
                       ELSE CalculatePurposeScore(p.purpose, c.suit),
     budget_fit |-> IF safe THEN CalculateBudgetFitSafe(c.price, p.bmin, p.bmax)
                    ELSE CalculateBudgetFit(c.price, p.bmin, p.bmax),
     performance_score |-> IF safe THEN CalculatePerformanceScoreSafe(p.level, c.perf)
                           ELSE CalculatePerformanceScore(p.level, c.perf, p.purpose),
     brand_bonus |-> CalculateBrandPreferenceBonus(c.comps, p.brands)]

\* brand_weight = min(brand_bonus * 0.1, weights['brand']); fixed in safe mode.
\* brand_bonus thousandths * 0.1 is brand_bonus ten-thousandths
BrandWeight(brand_bonus, w, safe) ==
    IF safe THEN w.brand ELSE Min(brand_bonus, w.brand)

\* the sum accumulated in confidence_score before it is clamped
RawConfidence(c, p, safe) ==
    LET w == Weights(p, safe)
        s == SubScores(c, p, safe)
    IN (IF safe \/ s.purpose_score > 0 THEN Weighted(s.purpose_score, w.purpose) ELSE 0)
       + Weighted(s.budget_fit, w.budget)
       + Weighted(s.performance_score, w.performance)
       + (IF s.brand_bonus > 0
          THEN Weighted(s.brand_bonus, BrandWeight(s.brand_bonus, w, safe)) ELSE 0)

\* match_reasons as [factor, weight], explanations left out
MatchReasons(c, p, safe) ==
    LET w == Weights(p, safe)
        s == SubScores(c, p, safe)
    IN (IF safe \/ s.purpose_score > 0
        THEN <<[factor |-> "purpose_alignment", weight |-> w.purpose]>> ELSE <<>>)
       \o <<[factor |-> "budget_fit", weight |-> w.budget],
             [factor |-> "performance_match", weight |-> w.performance]>>
       \o (IF s.brand_bonus > 0
            THEN <<[factor |-> "brand_preference",
                    weight |-> BrandWeight(s.brand_bonus, w, safe)]>> ELSE <<>>)
       \o (IF c.fallback_type \in {"preferred_brands", "relaxed_performance",
                                    "expanded_budget", "no_constraints"}
            THEN <<[factor |-> "fallback_note", weight |-> 0]>> ELSE <<>>)

\* a plausible slip: the budget check is left out
ScoreUnchecked(c, p, safe) ==
    IF c.price <= 0 THEN <<>>
    ELSE IF c.shape # "ok" THEN <<>>
    ELSE IF SubScores(c, p, safe).purpose_score = Raised THEN <<>>
    ELSE <<[configuration_id |-> c.id,
            total_price |-> c.price,
            confidence_score |-> Round1(Clamp(RawConfidence(c, p, safe))),
            match_reasons |-> MatchReasons(c, p, safe),
            fallback_type |-> c.fallback_type,
            score_breakdown |-> SubScores(c, p, safe)]>>

\* a plausible slip: no budget check, and the fallback tag of the candidate is
\* not carried into the result
ScoreUncheckedUntagged(c, p, safe) ==
    IF c.price <= 0 THEN <<>>
    ELSE IF c.shape # "ok" THEN <<>>
    ELSE IF SubScores(c, p, safe).purpose_score = Raised THEN <<>>
    ELSE <<[configuration_id |-> c.id,
            total_price |-> c.price,
            confidence_score |-> Round1(Clamp(RawConfidence(c, p, safe))),
            match_reasons |-> MatchReasons(c, p, safe),
            fallback_type |-> NoneVal,
            score_breakdown |-> SubScores(c, p, safe)]>>

\* _score_configuration: <<>> for None, <<r>> for the dictionary r
ScoreConfiguration(c, p, safe) ==
    IF c.price <= 0 THEN <<>>
    ELSE IF c.shape # "ok" THEN <<>>
    ELSE IF ~CheckBudgetConstraints(c.price, p) THEN <<>>
    ELSE IF SubScores(c, p, safe).purpose_score = Raised THEN <<>>
    ELSE <<[configuration_id |-> c.id,
            total_price |-> c.price,
            confidence_score |-> Round1(Clamp(RawConfidence(c, p, safe))),
            match_reasons |-> MatchReasons(c, p, safe),
            fallback_type |-> c.fallback_type,
            score_breakdown |-> SubScores(c, p, safe)]>>

\* a plausible slip: one candidate that cannot be scored empties the batch
RECURSIVE ScoreAllOrNothing(_, _, _)
ScoreAllOrNothing(cs, p, safe) ==
    IF cs = <<>> THEN <<>>
    ELSE IF \E i \in 1..Len(cs) : ScoreConfiguration(cs[i], p, safe) = <<>> THEN <<>>
    ELSE ScoreConfiguration(Head(cs), p, safe) \o ScoreAllOrNothing(Tail(cs), p, safe)

\* for result in scoring_results: if result: scored_configs.append(result)
RECURSIVE ScoreAll(_, _, _)
ScoreAll(cs, p, safe) ==
    IF cs = <<>> THEN <<>>
    ELSE ScoreConfiguration(Head(cs), p, safe) \o ScoreAll(Tail(cs), p, safe)

----------------------------------------------------------------------------
(* Ranker *)

\* a plausible slip: r also goes before an element with an equal key
RECURSIVE InsertBeforeEqual(_, _)
InsertBeforeEqual(s, r) ==
    IF s = <<>> THEN <<r>>
    ELSE IF r.confidence_score >= Head(s).confidence_score THEN <<r>> \o s
    ELSE <<Head(s)>> \o InsertBeforeEqual(Tail(s), r)

\* r goes before the first element with a strictly smaller key: equal keys keep
\* their order (list.sort is stable, also with reverse=True)
RECURSIVE InsertDescending(_, _)
InsertDescending(s, r) ==
    IF s = <<>> THEN <<r>>
    ELSE IF r.confidence_score > Head(s).confidence_score THEN <<r>> \o s
    ELSE <<Head(s)>> \o InsertDescending(Tail(s), r)

\* scored_configs.sort(key=confidence_score, reverse=True)
RECURSIVE SortByConfidence(_)
SortByConfidence(s) ==
    IF s = <<>> THEN <<>>
    ELSE InsertDescending(SortByConfidence(SubSeq(s, 1, Len(s) - 1)), s[Len(s)])

\* a plausible slip: the slice is left out
AllRecommendations(scored, limit) == SortByConfidence(scored)

\* scored_configs[:max_recommendations]
TopRecommendations(scored, limit) == Take(SortByConfidence(scored), limit)

----------------------------------------------------------------------------
(* Profile normalizer and result cache. The module-level Cache() has no      *)
(* Redis client and its entries live in memory_cache; a Cache built with a   *)
(* redis_url tries the server first and falls back to memory_cache           *)

\* order of the strings of the model under Python's string comparison
StringRank == [AMD |-> 1, INTEL |-> 2, NVIDIA |-> 3, k1 |-> 4, k2 |-> 5, k3 |-> 6,
               nvidia |-> 7, rgb |-> 8, wifi |-> 9]

RECURSIVE InsertString(_, _)
InsertString(s, x) ==
    IF s = <<>> THEN <<x>>
    ELSE IF StringRank[x] < StringRank[Head(s)] THEN <<x>> \o s
    ELSE <<Head(s)>> \o InsertString(Tail(s), x)

\* a plausible slip: the list goes into the key as the caller sent it
Unsorted(s) == s

\* sorted(list of strings)
RECURSIVE Sorted(_)
Sorted(s) == IF s = <<>> THEN <<>> ELSE InsertString(Sorted(Tail(s)), Head(s))

\* a plausible slip: max_recommendations is left out of the normalized profile
CacheKeyWithoutLimit(p, limit, safe) ==
    [kind |-> "recommendations",
     purpose |-> p.purpose, budget_min |-> p.bmin, budget_max |-> p.bmax,
     performance_level |-> p.level, safe_mode |-> safe,
     preferred_brands |-> Sorted(p.brands),
     must_have_features |-> Sorted(p.features)]

\* generate_cache_key("recommendations", json.dumps(normalized_profile)): the md5
\* digest is taken to be one-to-one, so the key is the normalized profile itself
CacheKey(p, limit, safe) ==
    [kind |-> "recommendations",
     purpose |-> p.purpose, budget_min |-> p.bmin, budget_max |-> p.bmax,
     performance_level |-> p.level, max_recommendations |-> limit, safe_mode |-> safe,
     preferred_brands |-> Sorted(p.brands),
     must_have_features |-> Sorted(p.features)]

\* generate_cache_key("component_summaries", sorted(component_ids))
SummaryKey(component_ids) ==
    [kind |-> "component_summaries", component_ids |-> Sorted(component_ids)]

DefaultTtl == 3600
ResultTtl == 1800

HasEntry(mc, key) == \E e \in mc : e.key = key
EntryOf(mc, key) == CHOOSE e \in mc : e.key = key

\* a plausible slip: the expiry time of an entry of memory_cache is not looked at
CacheGetIgnoringExpiry(mc, key, t) ==
    IF HasEntry(mc, key) THEN <<EntryOf(mc, key).value>> ELSE <<>>

\* what Cache.get returns: <<>> for None, <<value>> otherwise
CacheGet(mc, key, t) ==
    IF HasEntry(mc, key) /\ EntryOf(mc, key).expires_at > t
    THEN <<EntryOf(mc, key).value>> ELSE <<>>

\* memory_cache after Cache.get: an expired entry of the key is removed
AfterGet(mc, key, t) == {e \in mc : e.key # key \/ e.expires_at > t}

\* memory_cache after Cache.set(key, value, ttl)
AfterSet(mc, key, value, ttl, t) ==
    {e \in mc : e.key # key}
        \cup {[key |-> key, value |-> value,
                expires_at |-> t + (IF ttl > 0 THEN ttl ELSE DefaultTtl)]}

\* `if cached_result:` a list is true when it is not empty
Truthy(got) == got # <<>> /\ got[1] # <<>>

\* a text is a sequence of pieces: a literal string, or the 32 hexadecimal
\* digits of an md5 digest, which stand for the data that was hashed
Literal(s) == [literal |-> s]
HexDigest(key) == [md5 |-> key]

\* _get_cache_key: f"pc_rec:{key}"
GetCacheKey(text) == <<Literal("pc_rec:")>> \o text

\* the name under which the entry of a key of generate_cache_key is stored
StoredKey(key) == GetCacheKey(<<HexDigest(key)>>)

\* str.startswith, and the glob f"{pattern_key}*" of redis keys(): no digest
\* begins with a literal of the model other than the empty one, a hexadecimal
\* digit is none of their first characters
StartsWith(text, prefix) ==
    Len(prefix) <= Len(text) /\ SubSeq(text, 1, Len(prefix)) = prefix

\* json.dumps(value, default=str) and json.loads: the lists of the model hold
\* strings, numbers, None and dicts of them, which json restores as they were
Dumps(value) == [json |-> value]
Loads(data) == data.json

\* the two stores of a Cache object
Stores(mc, r) == [memory_cache |-> mc, redis |-> r]

\* `if self.redis_client:` and the command does not raise
RedisUsable(r) == r.client /\ r.up

\* redis get: the data of a key that has not expired
RedisHas(r, key, t) == \E e \in r.store : e.key = key /\ e.expires_at > t
RedisData(r, key) == (CHOOSE e \in r.store : e.key = key).data

\* Cache.get, its value: the server's answer when there is one, else memory_cache
GetValue(c, key, t) ==
    IF RedisUsable(c.redis) /\ RedisHas(c.redis, key, t)
    THEN <<Loads(RedisData(c.redis, key))>>
    ELSE CacheGet(c.memory_cache, key, t)

\* a plausible slip: a hit in memory_cache renews the entry (sliding expiry)
GetStoresTouching(c, key, t) ==
    IF RedisUsable(c.redis) /\ RedisHas(c.redis, key, t) THEN c
    ELSE IF CacheGet(c.memory_cache, key, t) # <<>>
    THEN [c EXCEPT !.memory_cache =
              AfterSet(@, key, EntryOf(@, key).value, ResultTtl, t)]
    ELSE [c EXCEPT !.memory_cache = AfterGet(@, key, t)]

\* Cache.get, the stores it leaves
GetStores(c, key, t) ==
    IF RedisUsable(c.redis) /\ RedisHas(c.redis, key, t) THEN c
    ELSE [c EXCEPT !.memory_cache = AfterGet(@, key, t)]

\* a plausible slip: a setex that raises is swallowed and nothing is stored
SetStoresRedisOnly(c, key, value, ttl, t) ==
    IF RedisUsable(c.redis)
    THEN [c EXCEPT !.redis.store =
              {e \in @ : e.key # key}
                  \cup {[key |-> key, data |-> Dumps(value),
                          expires_at |-> t + (IF ttl > 0 THEN ttl ELSE DefaultTtl)]}]
    ELSE IF c.redis.client THEN c
    ELSE [c EXCEPT !.memory_cache = AfterSet(@, key, value, ttl, t)]

\* Cache.set: setex and return, or memory_cache when there is no client or setex
\* raises
SetStores(c, key, value, ttl, t) ==
    IF RedisUsable(c.redis)
    THEN [c EXCEPT !.redis.store =
              {e \in @ : e.key # key}
                  \cup {[key |-> key, data |-> Dumps(value),
                          expires_at |-> t + (IF ttl > 0 THEN ttl ELSE DefaultTtl)]}]
    ELSE [c EXCEPT !.memory_cache = AfterSet(@, key, value, ttl, t)]

\* Cache.delete: on the server, or in memory_cache when there is no client or
\* the command raises
DeleteStores(c, key) ==
    IF RedisUsable(c.redis)
    THEN [c EXCEPT !.redis.store = {e \in @ : e.key # key}]
    ELSE [c EXCEPT !.memory_cache = {e \in @ : e.key # key}]

\* Cache.clear_pattern(pattern): the keys that start with "pc_rec:" + pattern go,
\* on the server, or in memory_cache when there is no client or keys() raises
ClearPattern(c, pattern) ==
    IF RedisUsable(c.redis)
    THEN [c EXCEPT !.redis.store =
              {e \in @ : ~StartsWith(StoredKey(e.key), GetCacheKey(pattern))}]
    ELSE [c EXCEPT !.memory_cache =
              {e \in @ : ~StartsWith(StoredKey(e.key), GetCacheKey(pattern))}]

\* the stores after _get_component_summaries(components) of one scored candidate
AfterSummary(c, cand, t) ==
    IF cand.components = <<>> THEN c
    ELSE IF Truthy(GetValue(c, SummaryKey(cand.components), t))
    THEN GetStores(c, SummaryKey(cand.components), t)
    ELSE SetStores(GetStores(c, SummaryKey(cand.components), t),
                   SummaryKey(cand.components), cand.components, 1800, t)

\* the stores after the scoring of all of cs
RECURSIVE AfterSummaries(_, _, _, _, _)
AfterSummaries(c, cs, p, safe, t) ==
    IF cs = <<>> THEN c
    ELSE AfterSummaries(IF ScoreConfiguration(Head(cs), p, safe) # <<>>
                        THEN AfterSummary(c, Head(cs), t) ELSE c,
                        Tail(cs), p, safe, t)

----------------------------------------------------------------------------
(* The inputs of the model: catalog documents and requirement profiles *)

Doc(id, price, shape, g, o, overall, gpu, comps, components) ==
    [id |-> id, price |-> price, shape |-> shape,
     suit |-> [gaming |-> g, office |-> o],
     perf |-> [overall |-> overall, cpu |-> overall, gpu |-> gpu,
               ram |-> overall, storage |-> overall],
     comps |-> comps, components |-> components, fallback_type |-> NoneVal]

\* 1 and 2 differ in their components only; 3 lies outside the budget of Profiles
\* and inside the expanded one; 4 is below the thresholds of normal mode, also the
\* broadened ones; 5 is malformed
Pool ==
    { Doc(1, 1200, "ok", 90, 70, 85, 90, <<"NVIDIA", "INTEL">>, <<"k2", "k1">>),
      Doc(2, 1200, "ok", 90, 70, 85, 90, <<"AMD", "AMD">>, <<>>),
      Doc(3, 1420, "ok", 80, 60, 70, 70, <<"NVIDIA">>, <<"k3">>),
      Doc(4, 1020, "ok", 25, 25, 25, 25, <<"INTEL">>, <<>>),
      Doc(5, 1100, "bad_suitability", 0, 0, 60, 60, <<>>, <<>>) }

\* the catalogs a behaviour may start from: at most MaxCatalog documents, by id
RECURSIVE ById(_)
ById(S) ==
    IF S = {} THEN <<>>
    ELSE LET d == CHOOSE x \in S : \A y \in S : x.id <= y.id
         IN <<d>> \o ById(S \ {d})

Catalogs == {ById(S) : S \in {T \in SUBSET Pool : Cardinality(T) <= MaxCatalog}}

Preferences ==
    { [brands |-> <<>>, features |-> <<>>],
      [brands |-> <<"nvidia", "INTEL">>, features |-> <<"wifi", "rgb">>],
      [brands |-> <<"INTEL", "nvidia">>, features |-> <<"rgb", "wifi">>] }

Profiles ==
    { [session |-> sid, purpose |-> pu, bmin |-> 1000, bmax |-> 1400, level |-> "high",
       brands |-> pr.brands, features |-> pr.features] :
      sid \in {"s1", "s2"}, pu \in {"gaming"}, pr \in Preferences }

Limits == {1, 2}

----------------------------------------------------------------------------
(* generate_recommendations, one action per await on the catalog *)

NoProfile == [session |-> "", purpose |-> "general", bmin |-> 0, bmax |-> 0,
              level |-> "standard", brands |-> <<>>, features |-> <<>>]
NoRequest == [profile |-> NoProfile, limit |-> 0, safe |-> FALSE, started |-> 0,
              get_failed |-> FALSE]
NoProbe == [fn |-> "none"]

\* cache = Cache() at line 161 of cache.py: no redis_url, redis_client is None
NoRedis == [client |-> FALSE, up |-> FALSE, store |-> {}]

\* the locals of a coroutine that has not been called
NoCall == [pc |-> "idle", req |-> NoRequest, configs |-> <<>>, attempts |-> <<>>,
           result |-> <<>>, cacheHit |-> FALSE, outcome |-> "none"]

Init ==
    /\ catalog \in Catalogs
    /\ memory_cache = {}
    /\ now = 0
    /\ pc = "idle"
    /\ req = NoRequest
    /\ configs = <<>>
    /\ attempts = <<>>
    /\ result = <<>>
    /\ cacheHit = FALSE
    /\ outcome = "none"
    /\ served = {}
    /\ ncalls = 0
    /\ requested = {}
    /\ probe = NoProbe
    /\ redis = NoRedis
    /\ other = NoCall
    /\ issued = <<>>

Key(r) == CacheKey(r.profile, r.limit, r.safe)

\* what a call asks for, whoever asks and in whatever order the lists are sent
Requirements(p, limit, safe) ==
    [purpose |-> p.purpose, bmin |-> p.bmin, bmax |-> p.bmax, level |-> p.level,
     brands |-> Range(p.brands), features |-> Range(p.features),
     limit |-> limit, safe |-> safe]

\* two calls ask for the same thing
SameRequirements(a, b) ==
    Requirements(a.profile, a.limit, a.safe) = Requirements(b.profile, b.limit, b.safe)

\* the call returns or raises: what the caller sees and the cache it leaves
Finish(out, list, hit, c) ==
    /\ pc' = "done"
    /\ outcome' = out
    /\ result' = list
    /\ cacheHit' = hit
    /\ memory_cache' = c.memory_cache
    /\ redis' = c.redis

\* one catalog query of the call and the number of candidates it left in `configs`
Attempt(stage, found) == [stage |-> stage, found |-> Len(found), raised |-> FALSE]

\* a query whose exception reached generate_recommendations (line 241); an
\* exception inside _try_fallback_query does not: the stage returns []
RaisedAttempt(stage) == [stage |-> stage, found |-> 0, raised |-> TRUE]

\* lines 254-257: the first fallback stage depends on the preferred brands
FirstFallback(p) == IF p.brands # <<>> THEN "preferred_brands" ELSE "relaxed_performance"

\* the call starts: lines 54-89, cache.get and the return on a hit; a behaviour
\* has at most maxcalls calls, for at most maxkeys different requirements
CallBounded(p, limit, safe, maxcalls, maxkeys) ==
    /\ pc = "idle"
    /\ ncalls < maxcalls
    /\ ncalls' = ncalls + 1
    /\ Requirements(p, limit, safe) \in requested \/ Cardinality(requested) < maxkeys
    /\ requested' = requested \cup {Requirements(p, limit, safe)}
    /\ LET r == [profile |-> p, limit |-> limit, safe |-> safe, started |-> now,
                 get_failed |-> redis.client /\ ~redis.up]
           c == Stores(memory_cache, redis)
           got == GetValue(c, Key(r), now)
       IN /\ req' = r
          /\ configs' = <<>>
          /\ attempts' = <<>>
          /\ IF Truthy(got)
             THEN Finish("ok", got[1], TRUE, GetStores(c, Key(r), now))
             ELSE /\ pc' = "strict"
                  /\ outcome' = "none"
                  /\ result' = <<>>
                  /\ cacheHit' = FALSE
                  /\ memory_cache' = GetStores(c, Key(r), now).memory_cache
                  /\ redis' = GetStores(c, Key(r), now).redis
    /\ UNCHANGED <<catalog, now, served, probe, other, issued>>

Call(p, limit, safe) == CallBounded(p, limit, safe, MaxCalls, MaxKeys)

\* lines 145-181: the primary aggregation; an exception leads to line 241
PrimaryQuery(ok) ==
    /\ pc = "strict"
    /\ LET p == req.profile
           found == QueryThresholds(catalog, p.bmin, p.bmax, p.purpose,
                                    MinSuitability(p.purpose, req.safe),
                                    MinPerformance(p.level, req.safe), req.limit + 20)
       IN IF ok
          THEN /\ configs' = found
               /\ attempts' = Append(attempts, Attempt("strict", found))
               /\ pc' = IF Len(found) < req.limit THEN "broadened" ELSE "score"
          ELSE /\ configs' = <<>>
               /\ attempts' = Append(attempts, RaisedAttempt("strict"))
               /\ pc' = "simple"
    /\ UNCHANGED <<catalog, memory_cache, now, req, result, cacheHit, outcome, served, ncalls, requested, probe, redis, other, issued>>

\* lines 184-238: the broadened aggregation, merged with the primary result
BroadenedQuery(ok) ==
    /\ pc = "broadened"
    /\ LET p == req.profile
           found == QueryThresholds(catalog, p.bmin, p.bmax, p.purpose,
                                    Broaden(MinSuitability(p.purpose, req.safe)),
                                    Broaden(MinPerformance(p.level, req.safe)),
                                    req.limit + 15)
           merged == Take(Dedup(configs \o found, {}), req.limit + 20)
       IN IF ok
          THEN /\ configs' = merged
               /\ attempts' = Append(attempts, Attempt("broadened", merged))
               /\ pc' = IF merged = <<>> THEN FirstFallback(p) ELSE "score"
          ELSE /\ configs' = <<>>
               /\ attempts' = Append(attempts, RaisedAttempt("broadened"))
               /\ pc' = "simple"
    /\ UNCHANGED <<catalog, memory_cache, now, req, result, cacheHit, outcome, served, ncalls, requested, probe, redis, other, issued>>

\* a plausible slip: a failure of the price-only find is taken for an empty result
SimpleQuerySwallowing(ok) ==
    /\ pc = "simple"
    /\ LET p == req.profile
           found == IF ok THEN QuerySimple(catalog, p.bmin, p.bmax, req.limit + 10)
                    ELSE <<>>
       IN /\ configs' = found
          /\ attempts' = Append(attempts, IF ok THEN Attempt("simple", found)
                                          ELSE RaisedAttempt("simple"))
          /\ pc' = IF found = <<>> THEN FirstFallback(p) ELSE "score"
          /\ UNCHANGED <<memory_cache, result, cacheHit, outcome>>
    /\ UNCHANGED <<catalog, now, req, served, ncalls, requested, probe, redis, other, issued>>

\* lines 241-250: the price-only find; its exception leaves the call
SimpleQuery(ok) ==
    /\ pc = "simple"
    /\ LET p == req.profile
           found == QuerySimple(catalog, p.bmin, p.bmax, req.limit + 10)
       IN IF ok
          THEN /\ configs' = found
               /\ attempts' = Append(attempts, Attempt("simple", found))
               /\ pc' = IF found = <<>> THEN FirstFallback(p) ELSE "score"
               /\ UNCHANGED <<memory_cache, redis, result, cacheHit, outcome>>
          ELSE /\ configs' = <<>>
               /\ attempts' = Append(attempts, RaisedAttempt("simple"))
               /\ Finish("catalog_error", <<>>, FALSE, Stores(memory_cache, redis))
    /\ UNCHANGED <<catalog, now, req, served, ncalls, requested, probe, other, issued>>

\* a plausible slip: the next stage is tried whatever this one found
FallbackStageUnguarded(stage, ok, relaxed_performance, expanded_budget, no_constraints, next) ==
    /\ pc = stage
    /\ LET found == IF ok
                    THEN TryFallbackQuery(catalog, req.profile, req.limit,
                                          relaxed_performance, expanded_budget,
                                          no_constraints)
                    ELSE <<>>
       IN /\ attempts' = Append(attempts, Attempt(stage, found))
          /\ configs' = found
          /\ IF next # "fail"
             THEN /\ pc' = next
                  /\ UNCHANGED <<memory_cache, redis, result, cacheHit, outcome>>
             ELSE IF found # <<>>
             THEN /\ pc' = "score"
                  /\ UNCHANGED <<memory_cache, redis, result, cacheHit, outcome>>
             ELSE Finish("no_candidates", <<>>, FALSE, Stores(memory_cache, redis))
    /\ UNCHANGED <<catalog, now, req, served, ncalls, requested, probe, other, issued>>

\* one fallback stage: the query (an exception inside it yields []), then either
\* the scoring or the next stage
FallbackStage(stage, ok, relaxed_performance, expanded_budget, no_constraints, next) ==
    /\ pc = stage
    /\ LET found == IF ok
                    THEN TryFallbackQuery(catalog, req.profile, req.limit,
                                          relaxed_performance, expanded_budget,
                                          no_constraints)
                    ELSE <<>>
       IN /\ attempts' = Append(attempts, Attempt(stage, found))
          /\ configs' = found
          /\ IF found # <<>>
             THEN /\ pc' = "score"
                  /\ UNCHANGED <<memory_cache, redis, result, cacheHit, outcome>>
             ELSE IF next # "fail"
             THEN /\ pc' = next
                  /\ UNCHANGED <<memory_cache, redis, result, cacheHit, outcome>>
             ELSE Finish("no_candidates", <<>>, FALSE, Stores(memory_cache, redis))
    /\ UNCHANGED <<catalog, now, req, served, ncalls, requested, probe, other, issued>>

\* lines 256-264
RelaxPreferredBrands(ok) ==
    FallbackStage("preferred_brands", ok, FALSE, FALSE, FALSE, "relaxed_performance")
\* lines 266-274
RelaxPerformance(ok) ==
    FallbackStage("relaxed_performance", ok, TRUE, FALSE, FALSE, "expanded_budget")
\* lines 276-284
ExpandBudget(ok) ==
    FallbackStage("expanded_budget", ok, FALSE, TRUE, FALSE, "no_constraints")
\* lines 286-298
RemoveAllConstraints(ok) ==
    FallbackStage("no_constraints", ok, FALSE, FALSE, TRUE, "fail")

\* a plausible slip: the cache gets the scored list, not the one returned
ScoreAndStoreCachingScored ==
    /\ pc = "score"
    /\ LET p == req.profile
           scored == ScoreAll(configs, p, req.safe)
           top == TopRecommendations(scored, req.limit)
           c == AfterSummaries(Stores(memory_cache, redis), configs, p, req.safe, now)
       IN IF top = <<>>
          THEN Finish("no_candidates", <<>>, FALSE, c)
          ELSE Finish("ok", top, FALSE, SetStores(c, Key(req), scored, ResultTtl, now))
    /\ UNCHANGED <<catalog, now, req, configs, attempts, served, ncalls, requested,
                   probe, other, issued>>

\* a plausible slip: cache.set comes before the check for an empty list
ScoreAndStoreCachingEmpty ==
    /\ pc = "score"
    /\ LET p == req.profile
           scored == ScoreAll(configs, p, req.safe)
           top == TopRecommendations(scored, req.limit)
           c == AfterSummaries(Stores(memory_cache, redis), configs, p, req.safe, now)
       IN IF top = <<>>
          THEN Finish("no_candidates", <<>>, FALSE,
                      SetStores(c, Key(req), top, ResultTtl, now))
          ELSE Finish("ok", top, FALSE, SetStores(c, Key(req), top, ResultTtl, now))
    /\ UNCHANGED <<catalog, now, req, configs, attempts, served, ncalls, requested,
                   probe, other, issued>>

\* lines 300-377: scoring, ranking, cache.set and the return
ScoreAndStore ==
    /\ pc = "score"
    /\ LET p == req.profile
           scored == ScoreAll(configs, p, req.safe)
           top == TopRecommendations(scored, req.limit)
           c == AfterSummaries(Stores(memory_cache, redis), configs, p, req.safe, now)
       IN IF top = <<>>
          THEN Finish("no_candidates", <<>>, FALSE, c)
          ELSE Finish("ok", top, FALSE, SetStores(c, Key(req), top, ResultTtl, now))
    /\ UNCHANGED <<catalog, now, req, configs, attempts, served, ncalls, requested,
                   probe, other, issued>>

\* the caller has the answer; the locals of the call are gone
Return ==
    /\ pc = "done"
    /\ pc' = "idle"
    /\ served' = IF outcome = "ok" /\ ~cacheHit
                 THEN {s \in served : ~SameRequirements(s, req)}
                        \cup {[profile |-> req.profile, limit |-> req.limit,
                                safe |-> req.safe, result |-> result,
                                user_feedback |-> FALSE,
                                expires |-> IF RedisUsable(redis)
                                            THEN EntryOf(redis.store, Key(req)).expires_at
                                            ELSE EntryOf(memory_cache, Key(req)).expires_at]}
                 ELSE served
    /\ req' = NoRequest
    /\ configs' = <<>>
    /\ attempts' = <<>>
    /\ result' = <<>>
    /\ cacheHit' = FALSE
    /\ outcome' = "none"
    /\ UNCHANGED <<catalog, memory_cache, now, ncalls, requested, probe, redis, other, issued>>

----------------------------------------------------------------------------
(* The environment: the clock and the owner of the catalog *)

\* the clock is read by Cache.get at the start of a call and by Cache.set at its
\* end: a step of the clock anywhere else has the effect of one taken there
Tick ==
    /\ pc \in {"idle", "score"}
    /\ now + TickSeconds <= MaxTime
    /\ now' = now + TickSeconds
    /\ UNCHANGED <<catalog, memory_cache, pc, req, configs, attempts, result, cacheHit,
                   outcome, served, ncalls, requested, probe, redis, other, issued>>

\* the catalog is shared with its owner, who changes it between calls and between
\* the fallback queries of a call (the strict and broadened retrieval and the
\* scoring see the catalog as it was when the call began)
CatalogOpen ==
    pc \in {"idle", "preferred_brands", "relaxed_performance", "expanded_budget",
            "no_constraints"}

CatalogInsert(d) ==
    /\ CatalogOpen
    /\ Len(catalog) < MaxCatalog
    /\ \A i \in 1..Len(catalog) : catalog[i].id # d.id
    /\ catalog' = ById(Range(catalog) \cup {d})
    /\ UNCHANGED <<memory_cache, now, pc, req, configs, attempts, result, cacheHit,
                   outcome, served, ncalls, requested, probe, redis, other, issued>>

CatalogDelete(i) ==
    /\ CatalogOpen
    /\ i \in 1..Len(catalog)
    /\ catalog' = SubSeq(catalog, 1, i - 1) \o SubSeq(catalog, i + 1, Len(catalog))
    /\ UNCHANGED <<memory_cache, now, pc, req, configs, attempts, result, cacheHit,
                   outcome, served, ncalls, requested, probe, redis, other, issued>>

\* ObjectId of the document that create_recommendations stored for a list
RecommendationId(s) == [objectid |-> Requirements(s.profile, s.limit, s.safe)]

\* submit_feedback for a stored recommendation, between two calls: user_feedback
\* is set on the document, then cache.clear_pattern(f"recommendations:{id}")
SubmitFeedback ==
    /\ pc = "idle"
    /\ \E s \in served :
          /\ ~s.user_feedback
          /\ served' = (served \ {s}) \cup {[s EXCEPT !.user_feedback = TRUE]}
          /\ LET c == ClearPattern(Stores(memory_cache, redis),
                                   <<Literal("recommendations:"), RecommendationId(s)>>)
             IN /\ memory_cache' = c.memory_cache
                /\ redis' = c.redis
    /\ UNCHANGED <<catalog, now, pc, req, configs, attempts, result, cacheHit, outcome,
                   ncalls, requested, probe, other, issued>>

\* the server behind redis_client stops answering, and answers again; between
\* cache.set and the return of the call there is no await
RedisFail ==
    /\ pc # "done"
    /\ redis.client
    /\ redis.up
    /\ redis' = [redis EXCEPT !.up = FALSE]
    /\ UNCHANGED <<catalog, memory_cache, now, pc, req, configs, attempts, result,
                   cacheHit, outcome, served, ncalls, requested, probe, other, issued>>

RedisRecover ==
    /\ pc # "done"
    /\ redis.client
    /\ ~redis.up
    /\ redis' = [redis EXCEPT !.up = TRUE]
    /\ UNCHANGED <<catalog, memory_cache, now, pc, req, configs, attempts, result,
                   cacheHit, outcome, served, ncalls, requested, probe, other, issued>>

Next ==
    \/ \E p \in Profiles, limit \in Limits, safe \in BOOLEAN : Call(p, limit, safe)
    \/ \E ok \in BOOLEAN : PrimaryQuery(ok)
    \/ \E ok \in BOOLEAN : BroadenedQuery(ok)
    \/ \E ok \in BOOLEAN : SimpleQuery(ok)
    \/ \E ok \in BOOLEAN : RelaxPreferredBrands(ok)
    \/ \E ok \in BOOLEAN : RelaxPerformance(ok)
    \/ \E ok \in BOOLEAN : ExpandBudget(ok)
    \/ \E ok \in BOOLEAN : RemoveAllConstraints(ok)
    \/ ScoreAndStore
    \/ Return
    \/ Tick
    \/ \E d \in Pool : CatalogInsert(d)
    \/ \E i \in 1..MaxCatalog : CatalogDelete(i)

Spec == Init /\ [][Next]_vars

----------------------------------------------------------------------------
(* The engine and the feedback route over a Cache built without or with a    *)
(* redis_url, whose server comes and goes; the catalog is left alone          *)

InitRedis ==
    /\ catalog \in Catalogs
    /\ memory_cache = {}
    /\ now = 0
    /\ pc = "idle"
    /\ req = NoRequest
    /\ configs = <<>>
    /\ attempts = <<>>
    /\ result = <<>>
    /\ cacheHit = FALSE
    /\ outcome = "none"
    /\ served = {}
    /\ ncalls = 0
    /\ requested = {}
    /\ probe = NoProbe
    /\ \/ redis = NoRedis
       \/ \E up \in BOOLEAN : redis = [client |-> TRUE, up |-> up, store |-> {}]
    /\ other = NoCall
    /\ issued = <<>>

NextRedis ==
    \/ \E p \in Profiles, limit \in Limits, safe \in BOOLEAN : Call(p, limit, safe)
    \/ \E ok \in BOOLEAN : PrimaryQuery(ok)
    \/ \E ok \in BOOLEAN : BroadenedQuery(ok)
    \/ \E ok \in BOOLEAN : SimpleQuery(ok)
    \/ \E ok \in BOOLEAN : RelaxPreferredBrands(ok)
    \/ \E ok \in BOOLEAN : RelaxPerformance(ok)
    \/ \E ok \in BOOLEAN : ExpandBudget(ok)
    \/ \E ok \in BOOLEAN : RemoveAllConstraints(ok)
    \/ ScoreAndStore
    \/ Return
    \/ Tick
    \/ SubmitFeedback
    \/ RedisFail
    \/ RedisRecover

SpecRedis == InitRedis /\ [][NextRedis]_vars

----------------------------------------------------------------------------
(* Calls for different requirements, one after another, over one catalog     *)
(* whose queries succeed: one more call and one more key than in Spec        *)

\* a profile, the ones that differ from it in one field, and one for which the
\* fallback sequence starts at its first stage
KeyProfile == [session |-> "s1", purpose |-> "gaming", bmin |-> 1000, bmax |-> 1400,
               level |-> "high", brands |-> <<>>, features |-> <<>>]
KeyProfiles ==
    { KeyProfile,
      [KeyProfile EXCEPT !.session = "s2"],
      [KeyProfile EXCEPT !.purpose = "office"],
      [KeyProfile EXCEPT !.bmin = 1100],
      [KeyProfile EXCEPT !.bmax = 1100],
      [KeyProfile EXCEPT !.level = "basic"],
      [KeyProfile EXCEPT !.brands = <<"nvidia">>],
      [KeyProfile EXCEPT !.features = <<"wifi">>],
      [KeyProfile EXCEPT !.bmax = 1100, !.brands = <<"nvidia">>] }

\* one candidate for the strict retrieval, one for the last fallback stage and a
\* malformed one
KeyCatalog == ById({d \in Pool : d.id \in {1, 4, 5}})

InitKeys ==
    /\ catalog = KeyCatalog
    /\ memory_cache = {}
    /\ now = 0
    /\ pc = "idle"
    /\ req = NoRequest
    /\ configs = <<>>
    /\ attempts = <<>>
    /\ result = <<>>
    /\ cacheHit = FALSE
    /\ outcome = "none"
    /\ served = {}
    /\ ncalls = 0
    /\ requested = {}
    /\ probe = NoProbe
    /\ redis = NoRedis
    /\ other = NoCall
    /\ issued = <<>>

NextKeys ==
    \/ \E p \in KeyProfiles, limit \in Limits, safe \in BOOLEAN :
           CallBounded(p, limit, safe, MaxCalls + 1, MaxKeys + 1)
    \/ PrimaryQuery(TRUE)
    \/ BroadenedQuery(TRUE)
    \/ RelaxPreferredBrands(TRUE)
    \/ RelaxPerformance(TRUE)
    \/ ExpandBudget(TRUE)
    \/ RemoveAllConstraints(TRUE)
    \/ ScoreAndStore
    \/ Return
    \/ Tick

SpecKeys == InitKeys /\ [][NextKeys]_vars

----------------------------------------------------------------------------
(* Two calls for the same requirements on one event loop, over a catalog     *)
(* that does not change. The coroutines are switched at the awaits on the    *)
(* catalog; Cache.get and Cache.set on memory_cache do not suspend. The      *)
(* queries of the strict retrieval may fail, the ones of the fallback stages *)
(* succeed. Both calls keep their locals when they are done. The clock       *)
(* stands still: the two calls take far less than the 1800 s of an entry     *)

\* the locals of the running coroutine
Locals == [pc |-> pc, req |-> req, configs |-> configs, attempts |-> attempts,
           result |-> result, cacheHit |-> cacheHit, outcome |-> outcome]

\* the event loop suspends the running coroutine and resumes the other one
Switch ==
    /\ other' = Locals
    /\ pc' = other.pc
    /\ req' = other.req
    /\ configs' = other.configs
    /\ attempts' = other.attempts
    /\ result' = other.result
    /\ cacheHit' = other.cacheHit
    /\ outcome' = other.outcome
    /\ UNCHANGED <<catalog, memory_cache, now, served, ncalls, requested, probe, redis, issued>>

NextPair ==
    \/ \E p \in Profiles, limit \in Limits, safe \in BOOLEAN : Call(p, limit, safe)
    \/ \E ok \in BOOLEAN : PrimaryQuery(ok)
    \/ \E ok \in BOOLEAN : BroadenedQuery(ok)
    \/ \E ok \in BOOLEAN : SimpleQuery(ok)
    \/ RelaxPreferredBrands(TRUE)
    \/ RelaxPerformance(TRUE)
    \/ ExpandBudget(TRUE)
    \/ RemoveAllConstraints(TRUE)
    \/ ScoreAndStore
    \/ Switch

SpecPair == Init /\ [][NextPair]_vars

----------------------------------------------------------------------------
(* The weight calculator and the safe sub-scores on their own: the inputs    *)
(* are drawn in the initial state, one action applies each function          *)

\* budgets of the three range classes of _calculate_dynamic_weights (< 500,
\* 500..2000, > 2000), one with min = max, which the request validation admits,
\* and one with the centre of [1000, 4000] and a third of its range
ProbeBudgets ==
    { [bmin |-> 1000, bmax |-> 1400], [bmin |-> 1000, bmax |-> 2000],
      [bmin |-> 1000, bmax |-> 4000], [bmin |-> 1200, bmax |-> 1200],
      [bmin |-> 2000, bmax |-> 3000] }

\* a stored score: a number, no number (None or a string), or no entry at all
ProbeStored == {NonNumeric, 0, 20, 45, 100}
ProbeSuitabilities ==
    {[k \in Purposes |-> v] : v \in ProbeStored} \cup {<<>>}
ProbeProfiles ==
    {[k \in PerfKeys |-> v] : v \in ProbeStored} \cup {<<>>}
ProbePrices == {900, 1200, 1390, 4100}

ProbeInputs ==
    [purpose : Purposes, level : Levels, budget : ProbeBudgets, safe : BOOLEAN,
     suit : ProbeSuitabilities, perf : ProbeProfiles, price : ProbePrices]

ProbeProfile(a) ==
    [session |-> "s1", purpose |-> a.purpose, bmin |-> a.budget.bmin,
     bmax |-> a.budget.bmax, level |-> a.level, brands |-> <<>>, features |-> <<>>]

InitProbe ==
    /\ catalog = <<>>
    /\ memory_cache = {}
    /\ now = 0
    /\ pc = "idle"
    /\ req = NoRequest
    /\ configs = <<>>
    /\ attempts = <<>>
    /\ result = <<>>
    /\ cacheHit = FALSE
    /\ outcome = "none"
    /\ served = {}
    /\ ncalls = 0
    /\ requested = {}
    /\ redis = NoRedis
    /\ other = NoCall
    /\ issued = <<>>
    /\ \E a \in ProbeInputs : probe = [fn |-> "input", args |-> a]

\* the catalog document of the probe: well-formed, no components
ProbeCandidate(a) ==
    [id |-> 1, price |-> a.price, shape |-> "ok", suit |-> a.suit, perf |-> a.perf,
     comps |-> <<>>, components |-> <<>>, fallback_type |-> NoneVal]

\* weights = {...} of safe mode, or self._calculate_dynamic_weights(user_profile)
ApplyWeights ==
    /\ probe.fn = "input"
    /\ probe' = [fn |-> "weights", args |-> probe.args,
                 value |-> Weights(ProbeProfile(probe.args), probe.args.safe)]
    /\ UNCHANGED <<catalog, memory_cache, now, pc, req, configs, attempts, result,
                   cacheHit, outcome, served, ncalls, requested, redis, other, issued>>

\* the three sub-scores of the safe branch of _score_configuration
ApplySafeScores ==
    /\ probe.fn = "input"
    /\ probe.args.safe
    /\ probe' = [fn |-> "safe_scores", args |-> probe.args,
                 value |-> [purpose_score |->
                                CalculatePurposeScoreSafe(probe.args.purpose,
                                                          probe.args.suit),
                            budget_fit |->
                                CalculateBudgetFitSafe(probe.args.price,
                                                       probe.args.budget.bmin,
                                                       probe.args.budget.bmax),
                            performance_score |->
                                CalculatePerformanceScoreSafe(probe.args.level,
                                                              probe.args.perf)]]
    /\ UNCHANGED <<catalog, memory_cache, now, pc, req, configs, attempts, result,
                   cacheHit, outcome, served, ncalls, requested, redis, other, issued>>

\* _score_configuration(config, user_profile, safe_mode): <<>> for None
ApplyScore ==
    /\ probe.fn = "input"
    /\ probe' = [fn |-> "score", args |-> probe.args,
                 value |-> ScoreConfiguration(ProbeCandidate(probe.args),
                                              ProbeProfile(probe.args),
                                              probe.args.safe)]
    /\ UNCHANGED <<catalog, memory_cache, now, pc, req, configs, attempts, result,
                   cacheHit, outcome, served, ncalls, requested, redis, other, issued>>

\* the budget part of _identify_trade_offs(price, budget, ...)
ApplyTradeOffs ==
    /\ probe.fn = "input"
    /\ probe' = [fn |-> "trade_offs", args |-> probe.args,
                 value |-> [threshold_factor |->
                                ThresholdFactor(probe.args.budget.bmax
                                                    - probe.args.budget.bmin),
                            budget |-> BudgetTradeOff(probe.args.price,
                                                      probe.args.budget.bmin,
                                                      probe.args.budget.bmax)]]
    /\ UNCHANGED <<catalog, memory_cache, now, pc, req, configs, attempts, result,
                   cacheHit, outcome, served, ncalls, requested, redis, other, issued>>

\* lines 96-140 and 188-189: the minimums of the primary and of the broadened
\* query
ApplyThresholds ==
    /\ probe.fn = "input"
    /\ probe' = [fn |-> "thresholds", args |-> probe.args,
                 value |-> [min_suitability |->
                                MinSuitability(probe.args.purpose, probe.args.safe),
                            min_performance |->
                                MinPerformance(probe.args.level, probe.args.safe),
                            fallback_min_suitability |->
                                Broaden(MinSuitability(probe.args.purpose,
                                                       probe.args.safe)),
                            fallback_min_performance |->
                                Broaden(MinPerformance(probe.args.level,
                                                       probe.args.safe))]]
    /\ UNCHANGED <<catalog, memory_cache, now, pc, req, configs, attempts, result,
                   cacheHit, outcome, served, ncalls, requested, redis, other, issued>>

NextProbe ==
    \/ ApplyWeights
    \/ ApplySafeScores
    \/ ApplyScore
    \/ ApplyTradeOffs
    \/ ApplyThresholds

SpecProbe == InitProbe /\ [][NextProbe]_vars

----------------------------------------------------------------------------
(* Calls in both modes over a catalog that does not change and whose queries *)
(* all succeed, with candidates that only the fallback stages can reach      *)

\* 6 is well-formed, inside the budget and below every threshold, the broadened
\* ones of safe mode included; 7 passes the relaxed suitability threshold of
\* normal mode and no performance threshold
StablePool ==
    { d \in Pool : d.id \in {1, 3} }
        \cup { Doc(6, 1150, "ok", 10, 10, 10, 10, <<"INTEL">>, <<>>),
               Doc(7, 1300, "ok", 45, 45, 18, 18, <<"AMD">>, <<>>) }

StableCatalogs == {ById(S) : S \in {T \in SUBSET StablePool : Cardinality(T) <= MaxCatalog}}

StableProfiles ==
    { KeyProfile,
      [KeyProfile EXCEPT !.purpose = "office", !.level = "basic"],
      [KeyProfile EXCEPT !.brands = <<"nvidia">>] }

InitStable ==
    /\ catalog \in StableCatalogs
    /\ memory_cache = {}
    /\ now = 0
    /\ pc = "idle"
    /\ req = NoRequest
    /\ configs = <<>>
    /\ attempts = <<>>
    /\ result = <<>>
    /\ cacheHit = FALSE
    /\ outcome = "none"
    /\ served = {}
    /\ ncalls = 0
    /\ requested = {}
    /\ probe = NoProbe
    /\ redis = NoRedis
    /\ other = NoCall
    /\ issued = <<>>

NextStable ==
    \/ \E p \in StableProfiles, limit \in Limits, safe \in BOOLEAN : Call(p, limit, safe)
    \/ PrimaryQuery(TRUE)
    \/ BroadenedQuery(TRUE)
    \/ RelaxPreferredBrands(TRUE)
    \/ RelaxPerformance(TRUE)
    \/ ExpandBudget(TRUE)
    \/ RemoveAllConstraints(TRUE)
    \/ ScoreAndStore
    \/ Return
    \/ Tick

SpecStable == InitStable /\ [][NextStable]_vars

----------------------------------------------------------------------------
(* The Cache object on its own: get, set, delete and clear_pattern issued   *)
(* one after another on one key, while the clock moves and the server       *)
(* behind redis_client, when there is one, comes and goes between them      *)

MaxOps == 3

\* the key of a result list, two values, and ttl: None (0 here) or the 1800 of
\* the engine
OpKey == CacheKey(KeyProfile, 1, FALSE)
OpValues == {<<"a">>, <<"b">>}
NoTtl == 0
OpTtls == {NoTtl, ResultTtl}

\* clear_pattern arguments: "" is a prefix of every key, "recommendations:" of
\* none, the keys being hexadecimal digests
OpPatterns == {<<>>, <<Literal("recommendations:")>>}

InitCache ==
    /\ catalog = <<>>
    /\ memory_cache = {}
    /\ now = 0
    /\ pc = "idle"
    /\ req = NoRequest
    /\ configs = <<>>
    /\ attempts = <<>>
    /\ result = <<>>
    /\ cacheHit = FALSE
    /\ outcome = "none"
    /\ served = {}
    /\ ncalls = 0
    /\ requested = {}
    /\ probe = NoProbe
    /\ \/ redis = NoRedis
       \/ \E up \in BOOLEAN : redis = [client |-> TRUE, up |-> up, store |-> {}]
    /\ other = NoCall
    /\ issued = <<>>

\* await cache.get(key)
GetOp ==
    /\ LET c == Stores(memory_cache, redis)
       IN /\ probe' = [fn |-> "get", key |-> OpKey, at |-> now,
                        value |-> GetValue(c, OpKey, now)]
          /\ memory_cache' = GetStores(c, OpKey, now).memory_cache
          /\ redis' = GetStores(c, OpKey, now).redis
    /\ UNCHANGED <<catalog, now, pc, req, configs, attempts, result, cacheHit, outcome,
                   served, ncalls, requested, other, issued>>

\* a writing operation has completed and left the stores c
Issue(op, c) ==
    /\ Len(issued) < MaxOps
    /\ issued' = Append(issued, op)
    /\ memory_cache' = c.memory_cache
    /\ redis' = c.redis
    /\ probe' = NoProbe
    /\ UNCHANGED <<catalog, now, pc, req, configs, attempts, result, cacheHit, outcome,
                   served, ncalls, requested, other>>

\* await cache.set(key, value, ttl)
SetOp(value, ttl) ==
    Issue([op |-> "set", value |-> value, ttl |-> ttl, at |-> now],
          SetStores(Stores(memory_cache, redis), OpKey, value, ttl, now))

\* await cache.delete(key)
DeleteOp ==
    Issue([op |-> "delete", at |-> now],
          DeleteStores(Stores(memory_cache, redis), OpKey))

\* await cache.clear_pattern(pattern)
ClearPatternOp(pattern) ==
    Issue([op |-> "clear_pattern", pattern |-> pattern, at |-> now],
          ClearPattern(Stores(memory_cache, redis), pattern))

NextCache ==
    \/ GetOp
    \/ \E value \in OpValues, ttl \in OpTtls : SetOp(value, ttl)
    \/ DeleteOp
    \/ \E pattern \in OpPatterns : ClearPatternOp(pattern)
    \/ Tick
    \/ RedisFail
    \/ RedisRecover

SpecCache == InitCache /\ [][NextCache]_vars

----------------------------------------------------------------------------
(* Properties *)

Returned == pc = "done" /\ outcome = "ok"
Computed == Returned /\ ~cacheHit

StrictStages == {"strict", "broadened", "simple"}
FallbackStages ==
    <<"preferred_brands", "relaxed_performance", "expanded_budget", "no_constraints">>
IsFallback(a) == a.stage \in Range(FallbackStages)
StageIndex(stage) == CHOOSE k \in 1..Len(FallbackStages) : FallbackStages[k] = stage
LastAttempt == attempts[Len(attempts)]

OutsideBudget(price, p) == price < p.bmin \/ price > p.bmax
InsideExpandedBudget(price, p) == ExpandedMin(p) <= price /\ price <= ExpandedMax(p)

PositionIn(cs, id) == CHOOSE k \in 1..Len(cs) : cs[k].id = id

\* C1: every candidate of a returned list (normal or safe mode, cache hit or
\* miss, fallback or not) has a confidence score between 0 and 100 inclusive
\* (the score is held in tenths of a point).
ConfidenceWithinBounds ==
    \A i \in 1..Len(result) :
        0 <= result[i].confidence_score /\ result[i].confidence_score <= 100 * 10

\* a computed list holds a candidate whose weighted sum exceeded 100 points and
\* was returned with 100.0
ClampedCandidateReturned ==
    /\ Computed
    /\ \E c \in Range(configs), i \in 1..Len(result) :
          /\ result[i].configuration_id = c.id
          /\ RawConfidence(c, req.profile, req.safe) > 100 * ScoreScale
          /\ result[i].confidence_score = 100 * 10

\* C2: for every profile (any purpose, budget range and performance level) and
\* in both scoring modes the four factor weights sum to 1.0.
WeightsSumToOne ==
    probe.fn = "weights" => WeightSum(probe.value) = WeightScale

\* the weights of a normal-mode profile that the purpose table changes from the
\* base weights, with a wide budget range
DynamicWeightsComputed ==
    /\ probe.fn = "weights"
    /\ ~probe.args.safe
    /\ probe.args.purpose = "gaming"
    /\ probe.args.budget.bmax - probe.args.budget.bmin > 2000
    /\ probe.value # BaseWeights

\* C3: every returned candidate whose fallback type is unset has a total price
\* within the budget of the profile, whichever retrieval produced it.
UntaggedWithinBudget ==
    \A i \in 1..Len(result) :
        result[i].fallback_type = NoneVal
            => /\ req.profile.bmin <= result[i].total_price
               /\ result[i].total_price <= req.profile.bmax

\* the aggregation failed and the list comes from the price-only retry
SimpleRetryReturned ==
    /\ Computed
    /\ LastAttempt.stage = "simple"
    /\ LastAttempt.found > 0
    /\ \E i \in 1..Len(result) : result[i].fallback_type = NoneVal

FallbackOrder ==
    \A j \in 1..Len(attempts) :
        IsFallback(attempts[j])
            => /\ \E i \in 1..(j - 1) : attempts[i].stage \in StrictStages
               /\ \A i \in 1..(j - 1) :
                     /\ IsFallback(attempts[i])
                            => /\ attempts[i].found = 0
                               /\ StageIndex(attempts[i].stage)
                                      < StageIndex(attempts[j].stage)
                     /\ IsFallback(attempts[i]) /\ i = j - 1
                            => StageIndex(attempts[j].stage)
                                   = StageIndex(attempts[i].stage) + 1
                     /\ attempts[i].stage \in StrictStages /\ IsFallback(attempts[i + 1])
                            => attempts[i].found = 0

\* the second stage found candidates after the strict retrieval and the first
\* stage had found none, and the call returned them
SecondStageReturned ==
    /\ Computed
    /\ Len(attempts) >= 3
    /\ LastAttempt.stage = "relaxed_performance"
    /\ LastAttempt.found > 0
    /\ attempts[Len(attempts) - 1].stage = "preferred_brands"

\* C6: in safe mode the purpose sub-score is at least 60, the budget-fit
\* sub-score at least 60 and the performance sub-score at least 65, also when a
\* computation takes its error path.
SafeFloors ==
    probe.fn = "safe_scores"
        => /\ probe.value.purpose_score >= 60 * ScoreScale
           /\ probe.value.budget_fit >= 60 * ScoreScale
           /\ probe.value.performance_score >= 65 * ScoreScale

\* the purpose score took its error path (a stored value that is no number), the
\* price is above the budget and the performance is far below the requirement
SafeFloorsReached ==
    /\ probe.fn = "safe_scores"
    /\ Get(probe.args.suit, probe.args.purpose, 50) = NonNumeric
    /\ probe.value.purpose_score = 70 * ScoreScale
    /\ probe.value.budget_fit = 60 * ScoreScale
    /\ probe.value.performance_score = 65 * ScoreScale

\* C7: the list computed on a cache miss is in non-increasing order of confidence
\* score, and two candidates with equal scores are in the order in which the
\* retrieval returned them.
RankedStable ==
    Computed
        => \A i, j \in 1..Len(result) :
               i < j
                   => /\ result[i].confidence_score >= result[j].confidence_score
                      /\ result[i].confidence_score = result[j].confidence_score
                             => PositionIn(configs, result[i].configuration_id)
                                    < PositionIn(configs, result[j].configuration_id)

\* a computed list with two candidates of equal score
TieReturned ==
    /\ Computed
    /\ Len(result) = 2
    /\ result[1].confidence_score = result[2].confidence_score

NoCandidatesOnlyAfterExhaustion ==
    pc = "done" /\ outcome = "no_candidates"
        => \A k \in 1..Len(FallbackStages) :
               \/ k = 1 /\ req.profile.brands = <<>>
               \/ \E i \in 1..Len(attempts) :
                      attempts[i].stage = FallbackStages[k] /\ attempts[i].found = 0

\* C10 as stated: when the strict retrieval and the earlier stages found nothing
\* and the expanded-budget stage found a candidate priced outside the budget and
\* inside the range widened by 15%, the call returns such a candidate with
\* fallbackType expanded_budget.
ExpandedBudgetReturned ==
    /\ pc = "done"
    /\ ~cacheHit
    /\ attempts # <<>>
    /\ LastAttempt.stage = "expanded_budget"
    /\ \E c \in Range(configs) :
          OutsideBudget(c.price, req.profile) /\ InsideExpandedBudget(c.price, req.profile)
    => /\ outcome = "ok"
       /\ \E i \in 1..Len(result) :
             /\ result[i].fallback_type = "expanded_budget"
             /\ OutsideBudget(result[i].total_price, req.profile)
             /\ InsideExpandedBudget(result[i].total_price, req.profile)

\* C11 as stated: every candidate of a list computed from a fallback stage carries
\* as fallbackType the name of the stage that retrieved it, also when the profile
\* has preferred brands.
FallbackTagIsStage ==
    Computed /\ IsFallback(LastAttempt)
        => \A i \in 1..Len(result) : result[i].fallback_type = LastAttempt.stage

SimplifiedRetryOnce ==
    /\ \A i \in 1..Len(attempts) :
           /\ attempts[i].stage \in {"strict", "broadened"} /\ attempts[i].raised
                  => \/ i = Len(attempts) /\ pc = "simple"
                     \/ i < Len(attempts) /\ attempts[i + 1].stage = "simple"
           /\ attempts[i].stage = "simple"
                  => /\ i > 1
                     /\ attempts[i - 1].raised
                     /\ \A j \in 1..Len(attempts) : attempts[j].stage = "simple" => j = i
           /\ attempts[i].stage = "simple" /\ attempts[i].raised
                  => /\ i = Len(attempts)
                     /\ pc = "done"
                     /\ outcome = "catalog_error"
                     /\ result = <<>>
                     /\ ~HasEntry(memory_cache, Key(req))
    /\ pc = "simple" => attempts # <<>> /\ LastAttempt.raised

\* the aggregation and the price-only query both failed
BothQueriesFailed ==
    /\ pc = "done"
    /\ outcome = "catalog_error"
    /\ Len(attempts) = 2
    /\ attempts[1].stage = "strict"
    /\ attempts[1].raised
    /\ attempts[2].raised

\* the candidates of the batch that _score_configuration scores
Scorable(c) == ScoreConfiguration(c, req.profile, req.safe) # <<>>

\* C17: when some candidates of the batch cannot be scored the call succeeds if
\* at least one other candidate is scored; the returned list holds scored
\* candidates of the batch only, min(limit, number scored) of them, each once,
\* best first, and none that was left out has a higher score than a returned one.
PartialScoringSucceeds ==
    pc = "done" /\ ~cacheHit /\ configs # <<>>
        => LET scored == {i \in 1..Len(configs) : Scorable(configs[i])}
               ScoreOf(i) ==
                   ScoreConfiguration(configs[i], req.profile, req.safe)[1]
           IN /\ outcome = (IF scored = {} THEN "no_candidates" ELSE "ok")
              /\ Len(result) = Min(req.limit, Cardinality(scored))
              /\ \A k \in 1..Len(result) :
                     /\ \E i \in scored : result[k] = ScoreOf(i)
                     /\ \A m \in 1..Len(result) :
                            m # k => result[m].configuration_id
                                         # result[k].configuration_id
                     /\ k < Len(result)
                            => result[k].confidence_score
                                   >= result[k + 1].confidence_score
              /\ \A i \in scored :
                     (\A k \in 1..Len(result) :
                          result[k].configuration_id # configs[i].id)
                         => \A k \in 1..Len(result) :
                                result[k].confidence_score
                                    >= ScoreOf(i).confidence_score

\* a malformed candidate was in the batch and the other one was returned
MalformedCandidateSkipped ==
    /\ Computed
    /\ \E i \in 1..Len(configs) : configs[i].shape # "ok"
    /\ Len(result) = 1

\* C19 as stated: for a profile with preferred brands and two candidates within
\* the budget of equal price, purpose score and performance score, the one with a
\* positive share of components of a preferred brand has a strictly higher
\* confidence score than the one with none.
PreferredBrandScoresHigher ==
    Computed /\ req.profile.brands # <<>>
        => \A i, j \in 1..Len(result) :
               /\ result[i].total_price = result[j].total_price
               /\ result[i].score_breakdown.purpose_score
                      = result[j].score_breakdown.purpose_score
               /\ result[i].score_breakdown.performance_score
                      = result[j].score_breakdown.performance_score
               /\ result[i].score_breakdown.brand_bonus > 0
               /\ result[j].score_breakdown.brand_bonus = 0
               => result[i].confidence_score > result[j].confidence_score

\* the budget ranges of the probe that are wider than 2000
WideBudgets == {b \in ProbeBudgets : b.bmax - b.bmin > 2000}

\* C20 as stated: for two normal-mode profiles of the same purpose and level, one
\* with a budget range below 500 and one with a range above 2000, the weight of
\* budget_fit is strictly greater for the narrow range and the weight of
\* performance_match is strictly greater for the wide range.
RangeMovesWeights ==
    /\ probe.fn = "weights"
    /\ ~probe.args.safe
    /\ probe.args.budget.bmax - probe.args.budget.bmin < 500
    => \A wide \in WideBudgets :
           LET w == Weights(ProbeProfile([probe.args EXCEPT !.budget = wide]), FALSE)
           IN /\ probe.value.budget > w.budget
              /\ w.performance > probe.value.performance

\* C15 as corrected: a failure of the server on cache.get or on cache.set never
\* fails the call. After a failed get the call is answered from memory_cache when
\* it holds an unexpired list for the key, a list computed for the same
\* requirements, with cacheHit = true; otherwise it queries the catalog and
\* returns the list it scored with cacheHit = false. After a failed set the
\* computed list is returned all the same and memory_cache holds it.
CacheFailureIsSoft ==
    /\ pc = "done" /\ req.get_failed
           => \/ /\ cacheHit
                 /\ outcome = "ok"
                 /\ \E s \in served : SameRequirements(s, req) /\ s.result = result
              \/ /\ ~cacheHit
                 /\ attempts # <<>>
                 /\ outcome \in {"ok", "no_candidates", "catalog_error"}
                 /\ outcome = "ok"
                        => result = TopRecommendations(
                                        ScoreAll(configs, req.profile, req.safe),
                                        req.limit)
    /\ Computed /\ redis.client /\ ~redis.up
           => /\ result = TopRecommendations(ScoreAll(configs, req.profile, req.safe),
                                             req.limit)
              /\ CacheGet(memory_cache, Key(req), now) = <<result>>

\* the server failed the get and the set of one call, which returned its list
GetAndSetFailed ==
    /\ Computed
    /\ req.get_failed
    /\ redis.client
    /\ ~redis.up

\* C15 as stated: after a failure of the server on cache.get the call retrieves
\* and scores candidates and returns the computed list with cacheHit = false.
CacheFailureComputes ==
    pc = "done" /\ req.get_failed => ~cacheHit /\ attempts # <<>>

\* the recommendation stored for the requirements of the call has feedback
FeedbackSubmitted ==
    \E s \in served : SameRequirements(s, req) /\ s.user_feedback

\* C13 as stated: once feedback has been submitted for a recommendation, an
\* identical request is a cache miss and is recomputed (the list that feedback
\* was given for is not served from the cache again).
FeedbackEvicts ==
    pc = "done" /\ FeedbackSubmitted => ~cacheHit

\* C14: after any sequence of requests a cache hit returns a list that was
\* computed for the same purpose, budget bounds, performance level, preferred
\* brands, features, limit and mode as the request, and the last one computed
\* for them.
HitIsForSameRequirements ==
    pc = "done" /\ cacheHit
        => \E s \in served : SameRequirements(s, req) /\ s.result = result

\* a hit while the cache holds the list of a request for something else
HitBesideOtherEntry ==
    /\ pc = "done"
    /\ cacheHit
    /\ \E s \in served :
          /\ ~SameRequirements(s, req)
          /\ s.result # result
          /\ CacheGet(memory_cache, CacheKey(s.profile, s.limit, s.safe), now) # <<>>

\* both calls have returned or raised, and they asked for the same
BothDone == pc = "done" /\ other.pc = "done" /\ SameRequirements(req, other.req)

\* no query of the two calls raised
NoQueryRaised ==
    /\ \A i \in 1..Len(attempts) : ~attempts[i].raised
    /\ \A i \in 1..Len(other.attempts) : ~other.attempts[i].raised

\* the two calls end alike and the cache holds the list they returned
CallsAgree ==
    /\ outcome = other.outcome
    /\ result = other.result
    /\ outcome = "ok"
           => /\ HasEntry(memory_cache, Key(req))
              /\ EntryOf(memory_cache, Key(req)).value = result

HighPerformance(perf) ==
    perf # <<>> /\ \A k \in PerfKeys : IsNumber(perf[k]) /\ perf[k] >= 100

\* C21 as stated: for a high-performance candidate and two normal-mode profiles
\* that differ in the performance level only, the confidence score under
\* professional is strictly greater than the one under basic.
ProfessionalScoresHigher ==
    /\ probe.fn = "score"
    /\ ~probe.args.safe
    /\ probe.args.level = "professional"
    /\ HighPerformance(probe.args.perf)
    /\ probe.value # <<>>
    => LET basic == ScoreConfiguration(
                        ProbeCandidate(probe.args),
                        ProbeProfile([probe.args EXCEPT !.level = "basic"]), FALSE)
       IN /\ basic # <<>>
          /\ probe.value[1].confidence_score > basic[1].confidence_score

\* C23 as stated: in normal mode the budget-fit sub-score of a price within a
\* budget with min < max is between 0 and 100 inclusive (sub-scores are held in
\* thousandths of a point).
BudgetFitWithinBounds ==
    /\ probe.fn = "score"
    /\ ~probe.args.safe
    /\ probe.args.budget.bmin < probe.args.budget.bmax
    /\ probe.value # <<>>
    => /\ probe.value[1].score_breakdown.budget_fit >= 0
       /\ probe.value[1].score_breakdown.budget_fit <= 100 * ScoreScale

\* a catalog document that _score_configuration can score in either mode
WellFormed(d) == d.shape = "ok" /\ d.price > 0

\* C22 as stated: in safe mode, whenever the catalog holds at least one
\* well-formed candidate priced within the budget, the call returns a non-empty
\* list (it does not fail with NoCandidatesFound), and every returned candidate
\* has a performance sub-score of at least 65.
SafeModeReturns ==
    /\ pc = "done" /\ req.safe
    /\ \E i \in 1..Len(catalog) :
           WellFormed(catalog[i]) /\ CheckBudgetConstraints(catalog[i].price, req.profile)
    => /\ outcome = "ok"
       /\ result # <<>>
       /\ \A k \in 1..Len(result) :
              result[k].score_breakdown.performance_score >= 65 * ScoreScale

\* C29: over a catalog that does not change and does not fail, whenever the
\* fallback sequence is entered the stages RelaxPreferredBrands and
\* RelaxPerformance return zero candidates, in both modes; only ExpandBudget and
\* RemoveAllConstraints can return a non-empty set.
RelaxStagesFindNothing ==
    \A k \in 1..Len(attempts) :
        attempts[k].stage \in {"preferred_brands", "relaxed_performance"}
            => attempts[k].found = 0

\* both relaxing stages ran in a safe-mode call and the last stage found a
\* candidate
LastStageFoundAfterRelaxing ==
    /\ pc = "done" /\ req.safe /\ Len(attempts) = 6
    /\ attempts[3].stage = "preferred_brands"
    /\ attempts[4].stage = "relaxed_performance"
    /\ attempts[6].stage = "no_constraints" /\ attempts[6].found > 0

\* C27 as stated: for two budgets with the same centre, the threshold factor of
\* the budget trade-off applied for the narrower range is never larger than the
\* one applied for the wider range.
BandShrinksWithRange ==
    probe.fn = "trade_offs"
        => \A b \in ProbeBudgets :
               /\ b.bmin + b.bmax = probe.args.budget.bmin + probe.args.budget.bmax
               /\ b.bmax - b.bmin < probe.args.budget.bmax - probe.args.budget.bmin
               => ThresholdFactor(b.bmax - b.bmin) <= probe.value.threshold_factor

\* C28 as stated: for every purpose, performance level and mode the suitability
\* and performance minimums of the broadened query are less than or equal to
\* those of the primary query.
BroadenedBelowPrimary ==
    probe.fn = "thresholds"
        => /\ probe.value.fallback_min_suitability <= probe.value.min_suitability
           /\ probe.value.fallback_min_performance <= probe.value.min_performance

\* C24: on a cache hit the call returns at once: it issues no catalog query and
\* no scoring (the call goes from its start to its return in one step, with no
\* attempt and no candidate), and it leaves the cache unchanged: no entry is
\* added, removed or given another value or expiry time. The list returned is
\* the value of the entry.
HitLeavesCacheUnchanged ==
    [][pc = "idle" /\ pc' = "done"
          => /\ cacheHit' /\ outcome' = "ok"
             /\ attempts' = <<>> /\ configs' = <<>>
             /\ memory_cache' = memory_cache
             /\ redis' = redis
             /\ result' = EntryOf(memory_cache, Key(req')).value]_vars

\* a hit some time after the entry was stored: its expiry time is still the one
\* it got when it was stored
HitAfterTick ==
    /\ pc = "done" /\ cacheHit /\ now > 0
    /\ EntryOf(memory_cache, Key(req)).expires_at < now + ResultTtl

\* the entries of memory_cache that hold result lists
ResultEntries(mc) == {e \in mc : e.key.kind = "recommendations"}

\* C26: the result cache is written only after successful scoring. A step changes
\* the entries for result lists only when it is the end of a successful cache
\* miss, which writes exactly one entry, under the key of the request, whose
\* value is the list returned, or when Cache.get at the start of a call evicts
\* the expired entry of the request's key; so a request that ends in
\* NoCandidatesFound or in a catalog failure writes none and leaves every
\* unexpired one as it was.
ResultCacheWrittenOnSuccess ==
    [][LET before == ResultEntries(memory_cache)
           after == ResultEntries(memory_cache')
           written == [key |-> Key(req), value |-> result',
                       expires_at |-> now + ResultTtl]
           stored == /\ pc = "score" /\ pc' = "done" /\ other' = other
                     /\ outcome' = "ok" /\ ~cacheHit'
       IN /\ stored => /\ result' # <<>>
                        /\ after = {e \in before : e.key # Key(req)} \cup {written}
          /\ ~stored => /\ after \subseteq before
                         /\ \A e \in before \ after :
                                /\ pc = "idle" /\ e.key = Key(req')
                                /\ e.expires_at <= now]_vars

\* a request ended in NoCandidatesFound or in a catalog failure while the cache
\* held a list
FailedBesideEntry ==
    /\ pc = "done" /\ outcome \in {"no_candidates", "catalog_error"}
    /\ ResultEntries(memory_cache) # {}

\* the time to live that Cache.set gives an entry: `ttl or self.default_ttl`
TtlOf(op) == IF op.ttl > 0 THEN op.ttl ELSE DefaultTtl

Touches(op) ==
    \/ op.op \in {"set", "delete"}
    \/ /\ op.op = "clear_pattern"
       /\ StartsWith(StoredKey(OpKey), GetCacheKey(op.pattern))
LastTouch == CHOOSE i \in 1..Len(issued) :
                 Touches(issued[i]) /\ \A j \in (i + 1)..Len(issued) : ~Touches(issued[j])

\* C30 as stated: for operations issued one after another on one key while the
\* cache service may go and come back between them, get returns the value of
\* the most recent set unless the entry has expired, and after a delete or a
\* matching clear_pattern it returns absent until the next set.
GetSeesLastWrite ==
    probe.fn = "get" /\ (\E i \in 1..Len(issued) : Touches(issued[i]))
        => LET last == issued[LastTouch]
           IN IF last.op = "set"
              THEN \/ probe.value = <<last.value>>
                   \/ /\ probe.value = <<>>
                      /\ probe.at >= last.at + TtlOf(last)
              ELSE probe.value = <<>>

====
